---- MODULE Spec2Model ----
(***************************************************************************)
(* Shape/dtype contract of the four torchao FP6 operators, as implemented  *)
(* by their fake (meta) kernels in torchao/ops.py.  A tensor is modelled   *)
(* by what the kernels look at: its dtype and its shape.  Each kernel is a *)
(* list of statements (torch._check calls followed by one return that      *)
(* allocates the result); a call executes them one statement at a time.    *)
(***************************************************************************)
EXTENDS Integers, Sequences, FiniteSets, TLC

VARIABLES op, args, status, pc, err, result

vars == <<op, args, status, pc, err, result>>

(* ---------------- bounds of the explored inputs ---------------- *)
MaxBS == 1
MaxOC == 2
MaxIC == 32
MaxWords == 6
MaxSplitK == 2

(* OC = IC = 256 of the tests *)
TestDim == 256

(* ---------------- tensors ---------------- *)
DTypes == {"float16", "int32", "float32"}

NoTensor == [dtype |-> "none", shape |-> <<>>]

Tensor(dt, sh) == [dtype |-> dt, shape |-> sh]

Dim(t) == Len(t.shape)

NoArgs == [x |-> NoTensor, w |-> NoTensor, s |-> NoTensor, splitK |-> 0]

(* shapes a caller may pass: 2-D ones over the given extents plus a 1-D and a 3-D one *)
MatrixShapes(R, C) == {<<r, c>> : r \in R, c \in C} \cup {<<1>>, <<1, 3, 1>>}

VectorShapes(N) == {<<n>> : n \in N} \cup {<<1, 1>>}

Activations == {Tensor(dt, sh) : dt \in DTypes, sh \in MatrixShapes(0..MaxBS, 0..MaxIC)}

Fp16Inputs == {Tensor(dt, sh) : dt \in DTypes,
                 sh \in MatrixShapes((0..MaxBS) \cup {TestDim}, (0..MaxIC) \cup {TestDim})}

Weights == {Tensor(dt, sh) : dt \in DTypes, sh \in MatrixShapes(0..MaxOC, 0..MaxWords)}

Scales == {Tensor(dt, sh) : dt \in DTypes, sh \in VectorShapes(0..(MaxOC + 1))}

(* splitK is a plain int: negative, zero and positive values can be passed *)
SplitKs == (-1)..MaxSplitK

(* ---------------- statements of a kernel ---------------- *)
Check(cond, kind) == [kind |-> "check", ok |-> cond, err |-> kind, value |-> NoTensor]

Return(t) == [kind |-> "return", ok |-> TRUE, err |-> "none", value |-> t]

(* ---------------- torchao::prepack_fp6_weight ---------------- *)
PrepackLen == 2

PrepackStmt(i, a) ==
  CASE i = 1 -> Check(Dim(a.w) = 2, "Rank")
    [] i = 2 -> Return(Tensor(a.w.dtype, a.w.shape))

(* ---------------- torchao::fp16_to_fp6 ---------------- *)
Fp16ToFp6KCheckMod2(K) == K % 2 = 0

Fp16ToFp6KCheck(K) == K % 4 = 0

Fp16ToFp6ShapeBits(M, K) == <<M, K * 6>>

Fp16ToFp6Shape(M, K) == <<M, (K * 6) \div 8>>

Fp16ToFp6Len == 4

Fp16ToFp6Stmt(i, a) ==
  CASE i = 1 -> Check(Dim(a.x) = 2, "Rank")
    [] i = 2 -> Check(a.x.dtype = "float16", "Dtype")
    [] i = 3 -> Check(Fp16ToFp6KCheck(a.x.shape[2]), "DimMismatch")
    [] i = 4 -> Return(Tensor("uint8", Fp16ToFp6Shape(a.x.shape[1], a.x.shape[2])))

(* ---------------- torchao::fp16act_fp6weight_linear ---------------- *)
(* IC / 16 * 3 == W1 with Python's true division: IC / 16 is exact in   *)
(* binary floating point and so is its triple, so the comparison is the *)
(* rational equality 3 * IC = 16 * W1.                                   *)
LinearICCheckFloorDiv(IC, W1) == (IC \div 16) * 3 = W1

LinearICCheck(IC, W1) == 3 * IC = 16 * W1

LinearOCCheckAtMost(OC, n) == OC <= n

LinearOCCheck(OC, n) == OC = n

LinearShape(BS, OC) == <<BS, OC>>

LinearLen == 9

LinearStmt(i, a) ==
  CASE i = 1 -> Check(Dim(a.x) = 2, "Rank")
    [] i = 2 -> Check(a.x.dtype = "float16", "Dtype")
    [] i = 3 -> Check(Dim(a.w) = 2, "Rank")
    [] i = 4 -> Check(a.w.dtype = "int32", "Dtype")
    [] i = 5 -> Check(Dim(a.s) = 1, "Rank")
    [] i = 6 -> Check(a.s.dtype = "float16", "Dtype")
    [] i = 7 -> Check(LinearICCheck(a.x.shape[2], a.w.shape[2]), "DimMismatch")
    [] i = 8 -> Check(LinearOCCheck(a.w.shape[1], a.s.shape[1]), "DimMismatch")
    [] i = 9 -> Return(Tensor(a.x.dtype, LinearShape(a.x.shape[1], a.w.shape[1])))

(* ---------------- torchao::fp6_weight_dequant ---------------- *)
DequantShapeBytes(OC, IC) == <<OC, (IC * 16) \div 6>>

DequantShape(OC, IC) == <<OC, (IC * 16) \div 3>>

DequantLen == 6

DequantStmtReturnEarly(i, a) ==
  CASE i = 1 -> Check(Dim(a.w) = 2, "Rank")
    [] i = 2 -> Check(a.w.dtype = "int32", "Dtype")
    [] i = 3 -> Check(Dim(a.s) = 1, "Rank")
    [] i = 4 -> Check(a.s.dtype = "float16", "Dtype")
    [] i = 5 -> Return(Tensor(a.s.dtype, DequantShape(a.w.shape[1], a.w.shape[2])))
    [] i = 6 -> Check(a.w.shape[1] = a.s.shape[1], "DimMismatch")

DequantStmt(i, a) ==
  CASE i = 1 -> Check(Dim(a.w) = 2, "Rank")
    [] i = 2 -> Check(a.w.dtype = "int32", "Dtype")
    [] i = 3 -> Check(Dim(a.s) = 1, "Rank")
    [] i = 4 -> Check(a.s.dtype = "float16", "Dtype")
    [] i = 5 -> Check(a.w.shape[1] = a.s.shape[1], "DimMismatch")
    [] i = 6 -> Return(Tensor(a.s.dtype, DequantShape(a.w.shape[1], a.w.shape[2])))

(* ---------------- dispatch ---------------- *)
Stmt(o, i, a) ==
  CASE o = "prepack" -> PrepackStmt(i, a)
    [] o = "fp16_to_fp6" -> Fp16ToFp6Stmt(i, a)
    [] o = "linear" -> LinearStmt(i, a)
    [] o = "dequant" -> DequantStmt(i, a)

ProgLen(o) ==
  CASE o = "prepack" -> PrepackLen
    [] o = "fp16_to_fp6" -> Fp16ToFp6Len
    [] o = "linear" -> LinearLen
    [] o = "dequant" -> DequantLen

(* outcome of a whole call, statement by statement from position i *)
RECURSIVE RunFrom(_, _, _)
RunFrom(o, a, i) ==
  IF i > ProgLen(o) THEN [ok |-> FALSE, err |-> "NoReturn", value |-> NoTensor]
  ELSE LET st == Stmt(o, i, a) IN
       IF st.kind = "return" THEN [ok |-> TRUE, err |-> "none", value |-> st.value]
       ELSE IF st.ok THEN RunFrom(o, a, i + 1)
       ELSE [ok |-> FALSE, err |-> st.err, value |-> NoTensor]

Outcome(o, a) == RunFrom(o, a, 1)

(* ---------------- the state machine ---------------- *)
Init ==
  /\ op = "none"
  /\ args = NoArgs
  /\ status = "idle"
  /\ pc = 0
  /\ err = "none"
  /\ result = NoTensor

Begin(o, a) ==
  /\ op' = o
  /\ args' = a
  /\ status' = "running"
  /\ pc' = 1
  /\ err' = "none"
  /\ result' = NoTensor

CallPrepack ==
  /\ status = "idle"
  /\ \E w \in Weights : Begin("prepack", [NoArgs EXCEPT !.w = w])

CallFp16ToFp6 ==
  /\ status = "idle"
  /\ \E x \in Fp16Inputs : Begin("fp16_to_fp6", [NoArgs EXCEPT !.x = x])

CallLinear ==
  /\ status = "idle"
  /\ \E x \in Activations, w \in Weights, s \in Scales, k \in SplitKs :
       Begin("linear", [x |-> x, w |-> w, s |-> s, splitK |-> k])

CallDequant ==
  /\ status = "idle"
  /\ \E w \in Weights, s \in Scales : Begin("dequant", [NoArgs EXCEPT !.w = w, !.s = s])

(* a torch._check whose condition holds *)
CheckPass ==
  /\ status = "running"
  /\ pc <= ProgLen(op)
  /\ LET st == Stmt(op, pc, args) IN st.kind = "check" /\ st.ok
  /\ pc' = pc + 1
  /\ UNCHANGED <<op, args, status, err, result>>

(* a torch._check whose condition fails raises *)
CheckFail ==
  /\ status = "running"
  /\ pc <= ProgLen(op)
  /\ LET st == Stmt(op, pc, args) IN
       /\ st.kind = "check"
       /\ ~st.ok
       /\ err' = st.err
  /\ status' = "error"
  /\ UNCHANGED <<op, args, pc, result>>

(* the return statement allocates the result and hands it to the caller *)
ReturnResult ==
  /\ status = "running"
  /\ pc <= ProgLen(op)
  /\ LET st == Stmt(op, pc, args) IN
       /\ st.kind = "return"
       /\ result' = st.value
  /\ status' = "done"
  /\ UNCHANGED <<op, args, pc, err>>

(* the caller has taken the result or the exception *)
Finish ==
  /\ status \in {"done", "error"}
  /\ op' = "none"
  /\ args' = NoArgs
  /\ status' = "idle"
  /\ pc' = 0
  /\ err' = "none"
  /\ result' = NoTensor

Next ==
  \/ CallPrepack
  \/ CallFp16ToFp6
  \/ CallLinear
  \/ CallDequant
  \/ CheckPass
  \/ CheckFail
  \/ ReturnResult
  \/ Finish

Spec == Init /\ [][Next]_vars

(* ======================= properties ======================= *)
Terminal == status \in {"done", "error"}

Rejected(kind) == status = "error" /\ err = kind /\ result = NoTensor

(* C1: in fp16act_fp6weight_linear and fp6_weight_dequant a scale whose     *)
(* length differs from the weight's row count OC never yields a result,     *)
(* and with otherwise valid arguments the call fails as a dimension         *)
(* mismatch.                                                                *)
C1_OtherwiseValid ==
  /\ args.w.dtype = "int32"
  /\ args.s.dtype = "float16"
  /\ op = "linear" =>
       /\ Dim(args.x) = 2
       /\ args.x.dtype = "float16"
       /\ 3 * args.x.shape[2] = 16 * args.w.shape[2]

C1_ScaleMismatch ==
  /\ op \in {"linear", "dequant"}
  /\ Terminal
  /\ Dim(args.w) = 2
  /\ Dim(args.s) = 1
  /\ args.s.shape[1] # args.w.shape[1]

C1_ScaleLengthMismatchRejected ==
  C1_ScaleMismatch =>
    /\ status = "error"
    /\ result = NoTensor
    /\ C1_OtherwiseValid => err = "DimMismatch"

C1_Witness ==
  /\ C1_ScaleMismatch
  /\ C1_OtherwiseValid
  /\ op = "linear"
  /\ args.x.shape[2] = 16
  /\ args.s.shape[1] > args.w.shape[1]
  /\ err = "DimMismatch"

(* C2: fp16_to_fp6 on a 2-D float16 matrix (M, K) is accepted exactly when  *)
(* K is a multiple of 4; the result is then uint8 of shape (M, K*6/8) with  *)
(* no remainder lost (49152 bytes for 256 x 256); otherwise it is rejected. *)
C2_Fp16ToFp6Size ==
  (op = "fp16_to_fp6" /\ Terminal /\ Dim(args.x) = 2 /\ args.x.dtype = "float16") =>
    LET M == args.x.shape[1]
        K == args.x.shape[2]
    IN /\ status = "done" <=> K % 4 = 0
       /\ K % 4 # 0 => Rejected("DimMismatch")
       /\ status = "done" =>
            /\ result.dtype = "uint8"
            /\ Len(result.shape) = 2
            /\ result.shape[1] = M
            /\ 8 * result.shape[2] = 6 * K
            /\ 8 * (result.shape[1] * result.shape[2]) = M * K * 6
            /\ (M = TestDim /\ K = TestDim) => result.shape[1] * result.shape[2] = 49152

C2_Witness ==
  /\ op = "fp16_to_fp6"
  /\ status = "done"
  /\ args.x.shape = <<TestDim, TestDim>>
  /\ result.shape[1] * result.shape[2] = 49152

(* C3: with valid ranks and dtypes and a matching scale,                   *)
(* fp16act_fp6weight_linear is accepted iff the weight's column count is   *)
(* IC/16*3; every accepted IC is a multiple of 16, and an IC that is not   *)
(* is rejected as a dimension mismatch whatever the column count.          *)
C3_ValidButForIC ==
  /\ op = "linear"
  /\ Terminal
  /\ Dim(args.x) = 2 /\ args.x.dtype = "float16"
  /\ Dim(args.w) = 2 /\ args.w.dtype = "int32"
  /\ Dim(args.s) = 1 /\ args.s.dtype = "float16"
  /\ args.s.shape[1] = args.w.shape[1]

C3_LinearAcceptsExactWidth ==
  C3_ValidButForIC =>
    LET IC == args.x.shape[2]
        W1 == args.w.shape[2]
    IN /\ status = "done" <=> (IC % 16 = 0 /\ W1 = (IC \div 16) * 3)
       /\ status = "done" => IC % 16 = 0
       /\ IC % 16 # 0 => Rejected("DimMismatch")
       /\ status = "error" => Rejected("DimMismatch")

C3_Witness ==
  /\ C3_ValidButForIC
  /\ status = "done"
  /\ args.x.shape[2] = 16
  /\ args.w.shape[2] = 3

(* C4: fp6_weight_dequant accepts no packed weight whose column count is   *)
(* not a multiple of 3.                                                    *)
C4_DequantRejectsBadWordCount ==
  (op = "dequant" /\ Terminal /\ Dim(args.w) = 2 /\ args.w.shape[2] % 3 # 0) =>
    status = "error" /\ result = NoTensor

(* C5: fp16act_fp6weight_linear accepts no call whose splitK is below 1.   *)
C5_LinearRejectsNonPositiveSplitK ==
  (op = "linear" /\ Terminal /\ args.splitK < 1) =>
    status = "error" /\ result = NoTensor

(* C6: prepack_fp6_weight accepts no 2-D weight whose column count is not  *)
(* a multiple of 3, and every accepted input yields a result of the        *)
(* input's shape and dtype.                                                *)
C6_PrepackValidatesRowWidth ==
  (op = "prepack" /\ Terminal /\ Dim(args.w) = 2) =>
    /\ args.w.shape[2] % 3 # 0 => status = "error" /\ result = NoTensor
    /\ status = "done" => result = args.w

(* C7: no operation accepts a tensor argument of the wrong dtype: float16  *)
(* for the fp16_to_fp6 input, the linear activation and every scale, int32 *)
(* for the weight of prepack, linear and dequant.                          *)
C7_ExpectedDtypes ==
  /\ op = "fp16_to_fp6" => args.x.dtype = "float16"
  /\ op = "prepack" => args.w.dtype = "int32"
  /\ op = "linear" =>
       args.x.dtype = "float16" /\ args.w.dtype = "int32" /\ args.s.dtype = "float16"
  /\ op = "dequant" => args.w.dtype = "int32" /\ args.s.dtype = "float16"

C7_WrongDtypeRejected ==
  (Terminal /\ ~C7_ExpectedDtypes) => status = "error" /\ result = NoTensor

(* C8: in every operation the result is allocated only after all of the    *)
(* kernel's rank, dtype and dimension checks have passed: a call in which  *)
(* a check fails ends in an error with no result, and no step of a call    *)
(* changes its inputs.                                                     *)
C8_AllChecksPass ==
  CASE op = "prepack" -> Dim(args.w) = 2
    [] op = "fp16_to_fp6" ->
         Dim(args.x) = 2 /\ args.x.dtype = "float16" /\ args.x.shape[2] % 4 = 0
    [] op = "linear" ->
         /\ Dim(args.x) = 2 /\ args.x.dtype = "float16"
         /\ Dim(args.w) = 2 /\ args.w.dtype = "int32"
         /\ Dim(args.s) = 1 /\ args.s.dtype = "float16"
         /\ 3 * args.x.shape[2] = 16 * args.w.shape[2]
         /\ args.w.shape[1] = args.s.shape[1]
    [] op = "dequant" ->
         /\ Dim(args.w) = 2 /\ args.w.dtype = "int32"
         /\ Dim(args.s) = 1 /\ args.s.dtype = "float16"
         /\ args.w.shape[1] = args.s.shape[1]
    [] OTHER -> TRUE

C8_ResultOnlyAfterChecks ==
  /\ result # NoTensor => status = "done" /\ C8_AllChecksPass
  /\ (Terminal /\ ~C8_AllChecksPass) => status = "error" /\ result = NoTensor
  /\ status = "error" => result = NoTensor /\ err # "none"

C8_ValidationBeforeAllocation ==
  [][C8_ResultOnlyAfterChecks' /\ (status = "running" => args' = args)]_vars

C8_Witness ==
  /\ op = "dequant"
  /\ status = "error"
  /\ pc = 5
  /\ args.w.shape[2] > 0
  /\ result = NoTensor

(* C9: for every call accepted by fp16act_fp6weight_linear,                *)
(* fp6_weight_dequant of the same weight and scale has shape (OC, IC) and  *)
(* the scale's dtype, so activation @ dequant.T is well formed and has the *)
(* shape (BS, OC) and dtype of the linear result, whatever splitK is.      *)
C9_ShapeAgreement ==
  (op = "linear" /\ status = "done") =>
    LET BS == args.x.shape[1]
        IC == args.x.shape[2]
        OC == args.w.shape[1]
        D == Outcome("dequant", [NoArgs EXCEPT !.w = args.w, !.s = args.s])
    IN /\ D.ok
       /\ D.value.shape = <<OC, IC>>
       /\ D.value.dtype = args.s.dtype
       /\ args.x.shape[2] = D.value.shape[2]
       /\ result.shape = <<BS, D.value.shape[1]>>
       /\ result.shape = <<BS, OC>>
       /\ result.dtype = args.x.dtype
       /\ result.dtype = D.value.dtype
       /\ \A k \in SplitKs : Outcome("linear", [args EXCEPT !.splitK = k]).value = result

C9_Witness ==
  /\ op = "linear"
  /\ status = "done"
  /\ args.x.shape = <<1, 32>>
  /\ args.w.shape = <<2, 6>>
  /\ args.splitK = 2
  /\ result.shape = <<1, 2>>

(* C10: for K a multiple of 16 the row byte length produced by fp16_to_fp6 *)
(* is 4 times the 32-bit column count fp16act_fp6weight_linear requires    *)
(* for IC = K; for K a multiple of 4 but not of 16 fp16_to_fp6 accepts the *)
(* input although the linear operation accepts no weight for that IC.      *)
C10_LinearAccepts(K, W1) ==
  Outcome("linear", [x |-> Tensor("float16", <<1, K>>),
                     w |-> Tensor("int32", <<1, W1>>),
                     s |-> Tensor("float16", <<1>>),
                     splitK |-> 1]).ok

C10_ContainerWidth ==
  (op = "fp16_to_fp6" /\ Terminal /\ Dim(args.x) = 2 /\ args.x.dtype = "float16"
     /\ args.x.shape[2] % 4 = 0) =>
    LET K == args.x.shape[2]
    IN /\ status = "done"
       /\ K % 16 = 0 =>
            /\ result.shape[2] % 4 = 0
            /\ C10_LinearAccepts(K, result.shape[2] \div 4)
            /\ \A w \in 0..result.shape[2] :
                 C10_LinearAccepts(K, w) => result.shape[2] = 4 * w
       /\ K % 16 # 0 => \A w \in 0..result.shape[2] : ~C10_LinearAccepts(K, w)

C10_Witness ==
  /\ op = "fp16_to_fp6"
  /\ status = "done"
  /\ args.x.shape = <<1, 16>>
  /\ result.shape = <<1, 12>>

====
